---- MODULE Spec2Model ----
(***************************************************************************)
(* Model of tools/gen-sample-packages.py: the script that derives the      *)
(* sample SDC packages from the "top" package.                             *)
(*                                                                         *)
(* The script is a straight-line Python 2 program.  Each action below is   *)
(* one statement of the script; pc names the line about to run.            *)
(*                                                                         *)
(* Numbers.  Every Python number is modelled by its value, an exact        *)
(* rational [n |-> numerator, d |-> denominator] in lowest terms, d > 0.   *)
(* All divisors the script uses are powers of two, so IEEE double          *)
(* arithmetic is exact on these values and agrees with the rationals.      *)
(*                                                                         *)
(* Objects.  Dicts live in heap, a sequence of dicts; a reference is an    *)
(* index into heap.  copy.copy allocates a new dict, so aliasing between   *)
(* top, pkg, pkg_kvm and the elements of pkgs is visible in the model.     *)
(***************************************************************************)
EXTENDS Integers, Sequences, FiniteSets, TLC

VARIABLES pc, heap, top, pkgs, ram_gb_it, ram_gb, pkg, ram_mb, factor,
          field_it, field, ram_str, pkg_kvm, stdout

vars == <<pc, heap, top, pkgs, ram_gb_it, ram_gb, pkg, ram_mb, factor,
          field_it, field, ram_str, pkg_kvm, stdout>>

----------------------------------------------------------------------------
(* Rational arithmetic: the values of Python's float and int operations.   *)

RECURSIVE GCD(_, _)
GCD(a, b) == IF b = 0 THEN a ELSE GCD(b, a % b)

Abs(i) == IF i < 0 THEN -i ELSE i

Rat(n, d) ==
    LET g == GCD(Abs(n), Abs(d))
        s == IF d < 0 THEN -1 ELSE 1
    IN  [n |-> (s * n) \div g, d |-> (s * d) \div g]

R(i) == [n |-> i, d |-> 1]

RMul(a, b) == Rat(a.n * b.n, a.d * b.d)

RDiv(a, b) == Rat(a.n * b.d, a.d * b.n)

RLt(a, b) == a.n * b.d < b.n * a.d

RLe(a, b) == a.n * b.d <= b.n * a.d

(* int(x): truncation toward zero. *)
int(x) == IF x.n >= 0 THEN R(x.n \div x.d) ELSE R(-((-x.n) \div x.d))

(* round(x) of Python 2: nearest integer, halves away from zero. *)
round(x) ==
    IF x.n >= 0 THEN R((2 * x.n + x.d) \div (2 * x.d))
                ELSE R(-((2 * (-x.n) + x.d) \div (2 * x.d)))

max(a, b) == IF RLt(a, b) THEN b ELSE a

(* The value of a name that is not bound yet. *)
Unbound == [n |-> 0, d |-> 0]

NoRef == 0

----------------------------------------------------------------------------
(* String conversions: "%s" % x.                                           *)

Digit(i) == <<"0", "1", "2", "3", "4", "5", "6", "7", "8", "9">>[i + 1]

RECURSIVE NatStr(_)
NatStr(i) == IF i < 10 THEN Digit(i) ELSE NatStr(i \div 10) \o Digit(i % 10)

(* str of a Python int. *)
int_str(x) == IF x.n < 0 THEN "-" \o NatStr(-x.n) ELSE NatStr(x.n)

(* Decimal digits of the fraction num/den, 0 <= num < den; the expansion   *)
(* terminates because den is a power of two.                               *)
RECURSIVE FracStr(_, _)
FracStr(num, den) ==
    IF num = 0 THEN ""
    ELSE Digit((10 * num) \div den) \o FracStr((10 * num) % den, den)

(* The mutant: a float rendered like "%g", without the trailing ".0". *)
float_str_g(x) ==
    LET a    == Abs(x.n)
        sign == IF x.n < 0 THEN "-" ELSE ""
    IN  IF a % x.d = 0
        THEN sign \o NatStr(a \div x.d)
        ELSE sign \o NatStr(a \div x.d) \o "." \o FracStr(a % x.d, x.d)

(* str of a Python 2 float: the shortest decimal ("%.12g"), and ".0" is    *)
(* appended when that has no decimal point.  Exact for the values here,    *)
(* which have fewer than 12 significant digits and need no exponent.       *)
float_str(x) ==
    LET a    == Abs(x.n)
        sign == IF x.n < 0 THEN "-" ELSE ""
    IN  IF a % x.d = 0
        THEN sign \o NatStr(a \div x.d) \o ".0"
        ELSE sign \o NatStr(a \div x.d) \o "." \o FracStr(a % x.d, x.d)

----------------------------------------------------------------------------
(* Dicts and the heap.                                                     *)

(* d[k] = v on a dict: the key is added when it is missing. *)
SetItem(d, k, v) ==
    [x \in (DOMAIN d) \cup {k} |-> IF x = k THEN v ELSE d[x]]

(* The mutant: copy.copy hands back the object it was given. *)
CopyAlias(h, ref) == ref

(* The reference copy.copy(ref) returns: a new object. *)
CopyRef(h, ref) == Len(h) + 1

(* The heap after copy.copy(ref): a shallow copy stored at CopyRef. *)
copy_copy(h, ref) ==
    [i \in 1 .. (IF CopyRef(h, ref) > Len(h) THEN Len(h) + 1 ELSE Len(h))
        |-> IF i = CopyRef(h, ref) THEN h[ref] ELSE h[i]]

(* The heap after  heap[ref][k] = v. *)
Store(h, ref, k, v) == [h EXCEPT ![ref] = SetItem(h[ref], k, v)]

(* The mutant: the new element goes to the front of the list. *)
list_prepend(l, x) == <<x>> \o l

(* list.append *)
list_append(l, x) == Append(l, x)

----------------------------------------------------------------------------
(* The constants of the script.                                            *)

TopDict ==
    [name |-> "sample-16-smartos",
     version |-> "1.0.0",
     active |-> TRUE,
     cpu_cap |-> R(200),
     default |-> FALSE,
     max_lwps |-> R(4000),
     max_physical_memory |-> R(16384),
     max_swap |-> R(32768),
     quota |-> R(262144),
     zfs_io_priority |-> R(100),
     group |-> "Sample",
     description |-> "Sample 16 GB RAM, 256 GB Disk",
     v |-> R(1)]

(* [0.25, 0.5, 1., 4., 8., 16.] *)
ScaleFactors == <<Rat(1, 4), Rat(1, 2), R(1), R(4), R(8), R(16)>>

(* The mutant: the I/O priority is scaled like the other resources. *)
ScaledFieldsWithIo ==
    <<"cpu_cap", "max_physical_memory", "max_swap", "quota", "zfs_io_priority">>

ScaledFields == <<"cpu_cap", "max_physical_memory", "max_swap", "quota">>

cpuFloor == 20

----------------------------------------------------------------------------
(* The expressions of the loop body.                                       *)

(* The mutant: megabytes counted in thousands. *)
ram_mb_decimal(g) == RMul(g, R(1000))

(* ram_gb * 1024 *)
ram_mb_of(g) == RMul(g, R(1024))

(* The mutant: the quotient taken the wrong way round. *)
factor_inverted(t, mb) == RDiv(mb, t["max_physical_memory"])

(* top["max_physical_memory"] / ram_mb *)
factor_of(t, mb) == RDiv(t["max_physical_memory"], mb)

(* The mutant: the lower bound is never applied. *)
NeverBelowFloor(d) == FALSE

(* pkg["cpu_cap"] < 20 *)
BelowFloor(d) == RLt(d["cpu_cap"], R(cpuFloor))

(* The mutant: the shares taken from the I/O priority. *)
fss_of_io(d) == d["zfs_io_priority"]

(* The value stored in pkg["fss"]. *)
fss_of(d) == d["cpu_cap"]

(* The mutant: the count is not clamped to 1. *)
vcpu_unclamped(d) == int(RDiv(d["cpu_cap"], R(100)))

(* max(1, int(pkg_kvm["cpu_cap"] / 100.0)) *)
vcpu_of(d) == max(R(1), int(RDiv(d["cpu_cap"], R(100))))

(* "sample-%s-smartos" % ram_gb *)
smartos_name(g) == "sample-" \o float_str(g) \o "-smartos"

(* "sample-%s-kvm" % ram_gb *)
kvm_name(g) == "sample-" \o float_str(g) \o "-kvm"

(* ram_str holds a float first and a str once line 81 has run. *)
FloatVal(x) == [isStr |-> FALSE, num |-> x, str |-> ""]

StrVal(s) == [isStr |-> TRUE, num |-> Unbound, str |-> s]

(* "%s" % ram_str *)
ram_str_s(rs) == IF rs.isStr THEN rs.str ELSE float_str(rs.num)

(* "Sample %s GB RAM, %s GB Disk" % (ram_str, int(pkg["quota"] / 1024)) *)
description_of(rs, d) ==
    "Sample " \o ram_str_s(rs) \o " GB RAM, "
        \o int_str(int(RDiv(d["quota"], R(1024)))) \o " GB Disk"

(* json.dumps(pkgs, indent=4): the value of the document it writes, the    *)
(* list of the dicts in list order.                                        *)
json_dumps(h, l) == [i \in 1 .. Len(l) |-> h[l[i]]]

----------------------------------------------------------------------------
Init ==
    /\ pc = "L65"
    /\ heap = <<TopDict>>
    /\ top = 1
    /\ pkgs = <<>>
    /\ ram_gb_it = 0
    /\ ram_gb = Unbound
    /\ pkg = NoRef
    /\ ram_mb = Unbound
    /\ factor = Unbound
    /\ field_it = 0
    /\ field = ""
    /\ ram_str = FloatVal(Unbound)
    /\ pkg_kvm = NoRef
    /\ stdout = <<>>

(* for ram_gb in [...]: the next element is bound. *)
ForRamGbNext ==
    /\ pc = "L65"
    /\ ram_gb_it < Len(ScaleFactors)
    /\ ram_gb_it' = ram_gb_it + 1
    /\ ram_gb' = ScaleFactors[ram_gb_it + 1]
    /\ pc' = "L66"
    /\ UNCHANGED <<heap, top, pkgs, pkg, ram_mb, factor, field_it, field,
                   ram_str, pkg_kvm, stdout>>

(* for ram_gb in [...]: the list is exhausted. *)
ForRamGbEnd ==
    /\ pc = "L65"
    /\ ram_gb_it = Len(ScaleFactors)
    /\ pc' = "L93"
    /\ UNCHANGED <<heap, top, pkgs, ram_gb_it, ram_gb, pkg, ram_mb, factor,
                   field_it, field, ram_str, pkg_kvm, stdout>>

(* pkg = copy.copy(top) *)
CopyTop ==
    /\ pc = "L66"
    /\ heap' = copy_copy(heap, top)
    /\ pkg' = CopyRef(heap, top)
    /\ pc' = "L67"
    /\ UNCHANGED <<top, pkgs, ram_gb_it, ram_gb, ram_mb, factor, field_it,
                   field, ram_str, pkg_kvm, stdout>>

(* ram_mb = ram_gb * 1024 *)
SetRamMb ==
    /\ pc = "L67"
    /\ ram_mb' = ram_mb_of(ram_gb)
    /\ pc' = "L68"
    /\ UNCHANGED <<heap, top, pkgs, ram_gb_it, ram_gb, pkg, factor, field_it,
                   field, ram_str, pkg_kvm, stdout>>

(* factor = top["max_physical_memory"] / ram_mb *)
SetFactor ==
    /\ pc = "L68"
    /\ factor' = factor_of(heap[top], ram_mb)
    /\ field_it' = 0
    /\ pc' = "L70"
    /\ UNCHANGED <<heap, top, pkgs, ram_gb_it, ram_gb, pkg, ram_mb, field,
                   ram_str, pkg_kvm, stdout>>

(* for field in [...]: the next field is bound. *)
ForFieldNext ==
    /\ pc = "L70"
    /\ field_it < Len(ScaledFields)
    /\ field_it' = field_it + 1
    /\ field' = ScaledFields[field_it + 1]
    /\ pc' = "L71"
    /\ UNCHANGED <<heap, top, pkgs, ram_gb_it, ram_gb, pkg, ram_mb, factor,
                   ram_str, pkg_kvm, stdout>>

(* for field in [...]: the list is exhausted. *)
ForFieldEnd ==
    /\ pc = "L70"
    /\ field_it = Len(ScaledFields)
    /\ pc' = "L72"
    /\ UNCHANGED <<heap, top, pkgs, ram_gb_it, ram_gb, pkg, ram_mb, factor,
                   field_it, field, ram_str, pkg_kvm, stdout>>

(* pkg[field] = top[field] / factor *)
ScaleField ==
    /\ pc = "L71"
    /\ heap' = Store(heap, pkg, field, RDiv(heap[top][field], factor))
    /\ pc' = "L70"
    /\ UNCHANGED <<top, pkgs, ram_gb_it, ram_gb, pkg, ram_mb, factor,
                   field_it, field, ram_str, pkg_kvm, stdout>>

(* if pkg["cpu_cap"] < 20: pkg["cpu_cap"] = 20 *)
CpuCapFloor ==
    /\ pc = "L72"
    /\ BelowFloor(heap[pkg])
    /\ heap' = Store(heap, pkg, "cpu_cap", R(cpuFloor))
    /\ pc' = "L76"
    /\ UNCHANGED <<top, pkgs, ram_gb_it, ram_gb, pkg, ram_mb, factor,
                   field_it, field, ram_str, pkg_kvm, stdout>>

(* else: pkg["cpu_cap"] = round(pkg["cpu_cap"]) *)
CpuCapRound ==
    /\ pc = "L72"
    /\ ~BelowFloor(heap[pkg])
    /\ heap' = Store(heap, pkg, "cpu_cap", round(heap[pkg]["cpu_cap"]))
    /\ pc' = "L76"
    /\ UNCHANGED <<top, pkgs, ram_gb_it, ram_gb, pkg, ram_mb, factor,
                   field_it, field, ram_str, pkg_kvm, stdout>>

(* pkg["fss"] = pkg["cpu_cap"] *)
SetFss ==
    /\ pc = "L76"
    /\ heap' = Store(heap, pkg, "fss", fss_of(heap[pkg]))
    /\ pc' = "L77"
    /\ UNCHANGED <<top, pkgs, ram_gb_it, ram_gb, pkg, ram_mb, factor,
                   field_it, field, ram_str, pkg_kvm, stdout>>

(* pkg["name"] = "sample-%s-smartos" % ram_gb *)
SetName ==
    /\ pc = "L77"
    /\ heap' = Store(heap, pkg, "name", smartos_name(ram_gb))
    /\ pc' = "L79"
    /\ UNCHANGED <<top, pkgs, ram_gb_it, ram_gb, pkg, ram_mb, factor,
                   field_it, field, ram_str, pkg_kvm, stdout>>

(* ram_str = pkg["max_physical_memory"] / 1024.0 *)
SetRamStr ==
    /\ pc = "L79"
    /\ ram_str' = FloatVal(RDiv(heap[pkg]["max_physical_memory"], R(1024)))
    /\ pc' = "L80"
    /\ UNCHANGED <<heap, top, pkgs, ram_gb_it, ram_gb, pkg, ram_mb, factor,
                   field_it, field, pkg_kvm, stdout>>

(* if ram_str == int(ram_str): ram_str = str(int(ram_str)) *)
RamStrWhole ==
    /\ pc = "L80"
    /\ ram_str.num = int(ram_str.num)
    /\ ram_str' = StrVal(int_str(int(ram_str.num)))
    /\ pc' = "L82"
    /\ UNCHANGED <<heap, top, pkgs, ram_gb_it, ram_gb, pkg, ram_mb, factor,
                   field_it, field, pkg_kvm, stdout>>

(* if ram_str == int(ram_str): the test fails and ram_str stays a float. *)
RamStrFraction ==
    /\ pc = "L80"
    /\ ram_str.num # int(ram_str.num)
    /\ pc' = "L82"
    /\ UNCHANGED <<heap, top, pkgs, ram_gb_it, ram_gb, pkg, ram_mb, factor,
                   field_it, field, ram_str, pkg_kvm, stdout>>

(* pkg["description"] = "Sample %s GB RAM, %s GB Disk" % (...) *)
SetDescription ==
    /\ pc = "L82"
    /\ heap' = Store(heap, pkg, "description",
                     description_of(ram_str, heap[pkg]))
    /\ pc' = "L86"
    /\ UNCHANGED <<top, pkgs, ram_gb_it, ram_gb, pkg, ram_mb, factor,
                   field_it, field, ram_str, pkg_kvm, stdout>>

(* pkgs.append(pkg) *)
AppendPkg ==
    /\ pc = "L86"
    /\ pkgs' = list_append(pkgs, pkg)
    /\ pc' = "L88"
    /\ UNCHANGED <<heap, top, ram_gb_it, ram_gb, pkg, ram_mb, factor,
                   field_it, field, ram_str, pkg_kvm, stdout>>

(* pkg_kvm = copy.copy(pkg) *)
CopyPkg ==
    /\ pc = "L88"
    /\ heap' = copy_copy(heap, pkg)
    /\ pkg_kvm' = CopyRef(heap, pkg)
    /\ pc' = "L89"
    /\ UNCHANGED <<top, pkgs, ram_gb_it, ram_gb, pkg, ram_mb, factor,
                   field_it, field, ram_str, stdout>>

(* pkg_kvm["vcpu"] = max(1, int(pkg_kvm["cpu_cap"] / 100.0)) *)
SetVcpu ==
    /\ pc = "L89"
    /\ heap' = Store(heap, pkg_kvm, "vcpu", vcpu_of(heap[pkg_kvm]))
    /\ pc' = "L90"
    /\ UNCHANGED <<top, pkgs, ram_gb_it, ram_gb, pkg, ram_mb, factor,
                   field_it, field, ram_str, pkg_kvm, stdout>>

(* pkg_kvm["name"] = "sample-%s-kvm" % ram_gb *)
SetKvmName ==
    /\ pc = "L90"
    /\ heap' = Store(heap, pkg_kvm, "name", kvm_name(ram_gb))
    /\ pc' = "L91"
    /\ UNCHANGED <<top, pkgs, ram_gb_it, ram_gb, pkg, ram_mb, factor,
                   field_it, field, ram_str, pkg_kvm, stdout>>

(* pkgs.append(pkg_kvm) *)
AppendKvm ==
    /\ pc = "L91"
    /\ pkgs' = list_append(pkgs, pkg_kvm)
    /\ pc' = "L65"
    /\ UNCHANGED <<heap, top, ram_gb_it, ram_gb, pkg, ram_mb, factor,
                   field_it, field, ram_str, pkg_kvm, stdout>>

(* print json.dumps(pkgs, indent=4), and the script ends. *)
PrintJson ==
    /\ pc = "L93"
    /\ stdout' = Append(stdout, json_dumps(heap, pkgs))
    /\ pc' = "done"
    /\ UNCHANGED <<heap, top, pkgs, ram_gb_it, ram_gb, pkg, ram_mb, factor,
                   field_it, field, ram_str, pkg_kvm>>

Next ==
    \/ ForRamGbNext
    \/ ForRamGbEnd
    \/ CopyTop
    \/ SetRamMb
    \/ SetFactor
    \/ ForFieldNext
    \/ ForFieldEnd
    \/ ScaleField
    \/ CpuCapFloor
    \/ CpuCapRound
    \/ SetFss
    \/ SetName
    \/ SetRamStr
    \/ RamStrWhole
    \/ RamStrFraction
    \/ SetDescription
    \/ AppendPkg
    \/ CopyPkg
    \/ SetVcpu
    \/ SetKvmName
    \/ AppendKvm
    \/ PrintJson

Spec == Init /\ [][Next]_vars

(* The interpreter runs the next statement as long as there is one. *)
FairSpec == Spec /\ WF_vars(Next)

----------------------------------------------------------------------------
(* Vocabulary of the properties.                                           *)

(* The i-th preset of the output list. *)
Out(i) == heap[pkgs[i]]

(* The scale factor the i-th preset of the output belongs to. *)
ScaleOf(i) == ScaleFactors[(i + 1) \div 2]

IsBareIndex(i) == i % 2 = 1

IsKvmIndex(i) == i % 2 = 0

(* top.cpu_cap / (top.max_physical_memory / (s * 1024)) *)
ScaledCpuCap(s) ==
    RDiv(TopDict.cpu_cap,
         RDiv(TopDict.max_physical_memory, RMul(s, R(1024))))

(* c is an integer nearest to x. *)
NearestInteger(c, x) ==
    /\ c.d = 1
    /\ 2 * Abs(c.n * x.d - x.n) <= x.d

----------------------------------------------------------------------------
(* C1: every preset in the output has cpu_cap >= 20; cpu_cap is exactly    *)
(* 20 when the proportionally scaled value is below 20, and otherwise it   *)
(* is the scaled value rounded to the nearest integer.                     *)
C1_CpuCapFloor ==
    \A i \in 1 .. Len(pkgs) :
        LET cap == Out(i)["cpu_cap"]
            raw == ScaledCpuCap(ScaleOf(i))
        IN  /\ RLe(R(20), cap)
            /\ RLt(raw, R(20)) => cap = R(20)
            /\ ~RLt(raw, R(20)) => NearestInteger(cap, raw)

C1_Witness ==
    /\ Len(pkgs) = 12
    /\ RLt(ScaledCpuCap(ScaleOf(1)), R(20)) /\ Out(1)["cpu_cap"] = R(20)
    /\ RLt(ScaledCpuCap(ScaleOf(2)), R(20)) /\ Out(2)["cpu_cap"] = R(20)
    /\ ~RLt(ScaledCpuCap(ScaleOf(7)), R(20)) /\ Out(7)["cpu_cap"] = R(50)

(* C2: for every preset of the output list, from the moment it has been    *)
(* appended and in the serialized document, fss equals its cpu_cap.        *)
C2_FssIsCpuCap ==
    /\ \A i \in 1 .. Len(pkgs) :
        /\ "fss" \in DOMAIN Out(i)
        /\ Out(i)["fss"] = Out(i)["cpu_cap"]
    /\ \A k \in 1 .. Len(stdout) : \A i \in 1 .. Len(stdout[k]) :
        /\ "fss" \in DOMAIN stdout[k][i]
        /\ stdout[k][i]["fss"] = stdout[k][i]["cpu_cap"]

C2_Witness ==
    /\ pc = "done"
    /\ Len(stdout) = 1 /\ Len(stdout[1]) = 12
    /\ stdout[1][1]["fss"] = R(20)
    /\ stdout[1][8]["fss"] = R(50)
    /\ Out(12)["fss"] = R(200)

(* C3: every accelerated (-kvm) preset of the output has                   *)
(* vcpu = max(1, floor(cpu_cap / 100)) of its own cpu_cap, and vcpu >= 1.  *)
C3_Vcpu ==
    \A i \in 1 .. Len(pkgs) :
        IsKvmIndex(i) =>
            /\ "vcpu" \in DOMAIN Out(i)
            /\ LET v   == Out(i)["vcpu"]
                   cap == Out(i)["cpu_cap"]
               IN  /\ v.d = 1
                   /\ v.n >= 1
                   /\ IF cap.n < 100 * cap.d
                      THEN v.n = 1
                      ELSE /\ 100 * v.n * cap.d <= cap.n
                           /\ cap.n < 100 * (v.n + 1) * cap.d

C3_Witness ==
    /\ Len(pkgs) = 12
    /\ Out(2)["cpu_cap"] = R(20) /\ Out(2)["vcpu"] = R(1)
    /\ Out(10)["cpu_cap"] = R(100) /\ Out(10)["vcpu"] = R(1)
    /\ Out(12)["cpu_cap"] = R(200) /\ Out(12)["vcpu"] = R(2)

(* C4: one pass over the scale factors in their increasing order; two      *)
(* presets per scale factor, the -smartos one immediately followed by the  *)
(* -kvm one; 2k presets after k scale factors, 12 at the end; the run      *)
(* terminates and the list is serialized exactly once.                     *)
C4_Names ==
    <<"sample-0.25-smartos", "sample-0.25-kvm",
      "sample-0.5-smartos", "sample-0.5-kvm",
      "sample-1.0-smartos", "sample-1.0-kvm",
      "sample-4.0-smartos", "sample-4.0-kvm",
      "sample-8.0-smartos", "sample-8.0-kvm",
      "sample-16.0-smartos", "sample-16.0-kvm">>

C4_Shape ==
    /\ \A k \in 1 .. Len(ScaleFactors) - 1 :
        RLt(ScaleFactors[k], ScaleFactors[k + 1])
    /\ pc = "L65" => Len(pkgs) = 2 * ram_gb_it
    /\ pc \in {"L88", "L89", "L90", "L91"} => Len(pkgs) = 2 * ram_gb_it - 1
    /\ pc \notin {"L65", "L88", "L89", "L90", "L91", "L93", "done"}
        => Len(pkgs) = 2 * (ram_gb_it - 1)
    /\ pc \in {"L93", "done"} =>
        /\ Len(pkgs) = 2 * Len(ScaleFactors)
        /\ Len(pkgs) = 12
    /\ \A i \in 1 .. Len(pkgs) :
        /\ Out(i)["name"] = C4_Names[i]
        /\ Out(i)["max_physical_memory"] = RMul(ScaleOf(i), R(1024))
        /\ IsBareIndex(i) => "vcpu" \notin DOMAIN Out(i)
        /\ IsKvmIndex(i) => "vcpu" \in DOMAIN Out(i)
    /\ Len(stdout) = (IF pc = "done" THEN 1 ELSE 0)
    /\ \A k \in 1 .. Len(stdout) : Len(stdout[k]) = 12

C4_Step ==
    /\ ram_gb_it' \in {ram_gb_it, ram_gb_it + 1}
    /\ \/ pkgs' = pkgs
       \/ /\ Len(pkgs') = Len(pkgs) + 1
          /\ SubSeq(pkgs', 1, Len(pkgs)) = pkgs
    /\ pc = "done" => pc' = "done"

C4_SinglePass ==
    /\ []C4_Shape
    /\ [][C4_Step]_vars
    /\ <>[](pc = "done" /\ Len(stdout) = 1)

C4_Witness ==
    /\ pc = "done"
    /\ ram_gb_it = 6
    /\ Len(pkgs) = 12
    /\ Len(stdout) = 1

(* C5: for each scale factor the bare and the accelerated preset agree on  *)
(* every field other than name, and their field sets differ by vcpu only:  *)
(* present in the accelerated preset, absent from the bare one.            *)
C5_Variants ==
    \A i \in 1 .. Len(pkgs) :
        IsKvmIndex(i) =>
            LET bare == Out(i - 1)
                kvm  == Out(i)
            IN  /\ "vcpu" \notin DOMAIN bare
                /\ "vcpu" \in DOMAIN kvm
                /\ DOMAIN kvm = (DOMAIN bare) \cup {"vcpu"}
                /\ \A f \in (DOMAIN bare) \ {"name"} : kvm[f] = bare[f]
                /\ kvm["name"] # bare["name"]

C5_Witness ==
    /\ Len(pkgs) = 12
    /\ "vcpu" \in DOMAIN Out(12)
    /\ "vcpu" \notin DOMAIN Out(11)
    /\ Out(12)["description"] = Out(11)["description"]
    /\ Out(12)["description"] = "Sample 16 GB RAM, 256 GB Disk"
    /\ Out(1)["description"] = "Sample 0.25 GB RAM, 4 GB Disk"

(* C6: top is never mutated; every preset of the output is an object of    *)
(* its own, different from top; and no step changes a preset that is in    *)
(* the output already (not the writes to the accelerated copy either).     *)
C6_TopIntact ==
    /\ top = 1
    /\ heap[top] = TopDict
    /\ \A i \in 1 .. Len(pkgs) :
        /\ pkgs[i] # top
        /\ \A j \in 1 .. Len(pkgs) : i # j => pkgs[i] # pkgs[j]

C6_Frame ==
    \A i \in 1 .. Len(pkgs) :
        /\ i <= Len(pkgs')
        /\ pkgs'[i] = pkgs[i]
        /\ heap'[pkgs[i]] = heap[pkgs[i]]

C6_NoMutation == []C6_TopIntact /\ [][C6_Frame]_vars

C6_Witness ==
    /\ pc = "L91"
    /\ Len(pkgs) = 11
    /\ pkgs[11] = pkg
    /\ pkg_kvm # pkg
    /\ heap[pkg_kvm]["name"] = "sample-16.0-kvm"
    /\ heap[pkg]["name"] = "sample-16.0-smartos"
    /\ heap[top]["name"] = "sample-16-smartos"

(* C7, as stated: every scale factor processed is strictly below 16 GB,    *)
(* the divisor is greater than 1 and every preset of the output has        *)
(* max_physical_memory strictly below top's.                               *)
C7_Original ==
    /\ ram_gb # Unbound => RLt(ram_gb, R(16))
    /\ factor # Unbound => RLt(R(1), factor)
    /\ \A i \in 1 .. Len(pkgs) :
        RLt(Out(i)["max_physical_memory"], heap[top]["max_physical_memory"])

(* C7, amended: every scale factor processed is at most 16 GB, the divisor *)
(* is at least 1, and every preset of the output has max_physical_memory   *)
(* at most top's, equal to it exactly for the scale factor 16.             *)
C7_AtMostBase ==
    /\ ram_gb # Unbound => RLe(ram_gb, R(16))
    /\ factor # Unbound => RLe(R(1), factor)
    /\ \A i \in 1 .. Len(pkgs) :
        /\ RLe(Out(i)["max_physical_memory"],
               heap[top]["max_physical_memory"])
        /\ (Out(i)["max_physical_memory"] = heap[top]["max_physical_memory"])
            <=> (ScaleOf(i) = R(16))

C7_Witness ==
    /\ Len(pkgs) = 12
    /\ ram_gb = R(16)
    /\ factor = R(1)
    /\ Out(11)["max_physical_memory"] = R(16384)
    /\ Out(12)["max_physical_memory"] = R(16384)

(* C8, as stated: in every preset of the output zfs_io_priority equals     *)
(* the preset's cpu_cap.                                                   *)
C8_Original ==
    \A i \in 1 .. Len(pkgs) :
        Out(i)["zfs_io_priority"] = Out(i)["cpu_cap"]

(* C8, amended: in every preset of the output zfs_io_priority is top's     *)
(* value, 100, whatever the scale factor; it equals the preset's cpu_cap   *)
(* for the scale factor 8 only.                                            *)
C8_IoPriorityFixed ==
    \A i \in 1 .. Len(pkgs) :
        /\ Out(i)["zfs_io_priority"] = R(100)
        /\ Out(i)["zfs_io_priority"] = heap[top]["zfs_io_priority"]
        /\ (Out(i)["zfs_io_priority"] = Out(i)["cpu_cap"])
            <=> (ScaleOf(i) = R(8))

C8_Witness ==
    /\ Len(pkgs) = 12
    /\ Out(1)["zfs_io_priority"] = R(100) /\ Out(1)["cpu_cap"] = R(20)
    /\ Out(9)["zfs_io_priority"] = R(100) /\ Out(9)["cpu_cap"] = R(100)
    /\ Out(12)["zfs_io_priority"] = R(100) /\ Out(12)["cpu_cap"] = R(200)

(* C9: for each scale factor s the presets have max_physical_memory =      *)
(* 1024 s, max_swap = 2048 s, quota = 16384 s, whole numbers, and cpu_cap, *)
(* fss and vcpu as in the documented table.                                *)
C9_Table ==
    LET s    == <<Rat(1, 4), Rat(1, 2), R(1), R(4), R(8), R(16)>>
        cap  == <<20, 20, 20, 50, 100, 200>>
        vcpu == <<1, 1, 1, 1, 1, 2>>
    IN  \A i \in 1 .. Len(pkgs) :
            LET k == (i + 1) \div 2
                p == Out(i)
            IN  /\ k <= 6
                /\ p["max_physical_memory"] = RMul(R(1024), s[k])
                /\ p["max_swap"] = RMul(R(2048), s[k])
                /\ p["quota"] = RMul(R(16384), s[k])
                /\ p["max_physical_memory"].d = 1
                /\ p["max_swap"].d = 1
                /\ p["quota"].d = 1
                /\ p["cpu_cap"] = R(cap[k])
                /\ p["fss"] = R(cap[k])
                /\ IsKvmIndex(i) => p["vcpu"] = R(vcpu[k])

C9_Witness ==
    /\ pc = "done"
    /\ Len(pkgs) = 12
    /\ Out(1)["max_physical_memory"] = R(256)
    /\ Out(8)["quota"] = R(65536)
    /\ Out(12)["max_swap"] = R(32768)

(* C10: the names in the output are pairwise distinct, and none is the     *)
(* name of top, "sample-16-smartos".                                       *)
C10_NamesDistinct ==
    \A i \in 1 .. Len(pkgs) :
        /\ Out(i)["name"] # "sample-16-smartos"
        /\ \A j \in 1 .. Len(pkgs) : i # j => Out(i)["name"] # Out(j)["name"]

C10_Witness ==
    /\ Len(pkgs) = 12
    /\ Out(11)["name"] = "sample-16.0-smartos"
    /\ Out(5)["name"] = "sample-1.0-smartos"
    /\ Out(2)["name"] = "sample-0.25-kvm"

====
